---------------------------- MODULE Spec2Model ----------------------------
(***************************************************************************)
(* Kyty emulator, Kernel/Memory.cpp: the Physical Memory Manager (direct   *)
(* memory blocks and their single mapping) and the Flexible Memory Manager *)
(* (virtual-only mappings).                                                *)
(*                                                                         *)
(* Every method of both managers takes the manager's Core::LockGuard for   *)
(* its whole body, so the calls of any number of threads on one manager    *)
(* are serialised: one call is one atomic action here, taken by whichever  *)
(* thread holds the mutex.                                                 *)
(*                                                                         *)
(* The Kernel* functions of the guest-facing API hold no lock of their     *)
(* own: between two manager calls, and between a manager call and a call   *)
(* of the host's VirtualMemory or of the GPU collaborator, other threads   *)
(* run. A Kernel* function is therefore a sequence of actions, one per     *)
(* manager call, host call, GPU call or blocking wait for the GPU, and     *)
(* EXIT(...) is a state in which no thread takes a step.                   *)
(*                                                                         *)
(* uint64_t / size_t are scaled from 64 bits to WordBits bits; all address *)
(* arithmetic the code does is done modulo Modulus, as the code does it    *)
(* modulo 2^64.                                                            *)
(***************************************************************************)
EXTENDS Integers, Sequences, FiniteSets

\* ------------------------------------------------------------------ bounds

\* Width of uint64_t / size_t in the model.
WordBits == 3

\* Greatest number of entries the two managers' lists hold together in the model.
MaxEntries == 2

\* Greatest number of blocks the Physical Manager's list holds when the threads
\* call only Alloc and Release.
MaxBlocks == 3

RECURSIVE Pow2(_)
Pow2(n) == IF n = 0 THEN 1 ELSE 2 * Pow2(n - 1)

Modulus == Pow2(WordBits)

Word == 0 .. (Modulus - 1)

\* ------------------------------------------------- unsigned word arithmetic

\* a + b in uint64_t.
Add(a, b) == (a + b) % Modulus

\* a - b in uint64_t.
Sub(a, b) == (a - b + Modulus) % Modulus

\* ~a in uint64_t.
BitNot(a) == Modulus - 1 - a

RECURSIVE BitAndN(_, _, _)
BitAndN(a, b, n) ==
    IF n = 0 THEN 0
    ELSE (a % 2) * (b % 2) + 2 * BitAndN(a \div 2, b \div 2, n - 1)

\* a & b in uint64_t.
BitAnd(a, b) == BitAndN(a, b, WordBits)

\* ------------------------------------------------------------------- state

VARIABLES
    phys,   \* g_physical_memory->m_allocated: sequence of AllocatedBlock
    flex,   \* g_flexible_memory->m_allocated: sequence of AllocatedBlock
    ret,    \* the last call: its name, its result and outputs (and the alignment
            \* an Alloc was given)
    trail,  \* history: the latest successful calls that changed a list, oldest
            \* first, as far as they are part of one of the sequences
            \*   Alloc, Alloc, Release, Alloc   or   Map, Unmap
    host,   \* VirtualMemory: the live host reservations, as [addr, len] records
    th      \* per thread: where it is in its Kernel Memory API call (pc), the
            \* call's arguments and locals, the calls it has made so far to the
            \* managers and the collaborators (log), and the status it returned

vars == <<phys, flex, ret, trail, host, th>>

\* --------------------------------------------------------- PhysicalMemory

\* get_aligned_pos with the mask ~align in place of ~(align - 1).
get_aligned_pos_nomask(pos, align) ==
    IF align # 0 THEN BitAnd(Add(pos, Sub(align, 1)), BitNot(align)) ELSE pos

\* static uint64_t get_aligned_pos(uint64_t pos, size_t align)
get_aligned_pos(pos, align) ==
    IF align # 0 THEN BitAnd(Add(pos, Sub(align, 1)), BitNot(Sub(align, 1))) ELSE pos

\* The loop of Alloc: the greatest b.start_addr + b.size (in uint64_t) over the
\* list, 0 for the empty list.
RECURSIVE FreePos(_, _)
FreePos(m, free_pos) ==
    IF m = <<>> THEN free_pos
    ELSE LET n == Add(Head(m).start_addr, Head(m).size)
         IN  FreePos(Tail(m), IF n > free_pos THEN n ELSE free_pos)

\* AllocatedBlock b {} as Alloc fills it in.
NewBlock(free_pos, len) ==
    [start_addr |-> free_pos, size |-> len, map_vaddr |-> 0, map_size |-> 0,
     prot |-> 0, mode |-> "NoAccess", gpu_mode |-> "NoAccess"]

\* bool PhysicalMemory::Alloc(search_start, search_end, len, alignment, phys_addr_out)
\* out_null: phys_addr_out == nullptr.  Result: the return value, the list after
\* the call and *phys_addr_out (0, the caller's initial value, when not written).
PhysicalMemory_Alloc(m, search_start, search_end, len, alignment, out_null) ==
    IF out_null THEN [ok |-> FALSE, m |-> m, phys_addr_out |-> 0]
    ELSE
    LET free_pos == get_aligned_pos(FreePos(m, 0), alignment)
    IN  IF free_pos >= search_start /\ Add(free_pos, len) <= search_end
        THEN [ok |-> TRUE, m |-> Append(m, NewBlock(free_pos, len)),
              phys_addr_out |-> free_pos]
        ELSE [ok |-> FALSE, m |-> m, phys_addr_out |-> 0]

\* Vector::RemoveAt(index)
RemoveAt(m, index) == SubSeq(m, 1, index - 1) \o SubSeq(m, index + 1, Len(m))

\* Where the loop over the list stops: the first of the indexes hits at which
\* the loop's test holds, 0 if there is none.
FirstIndex(hits) ==
    IF hits = {} THEN 0 ELSE CHOOSE i \in hits : \A j \in hits : i <= j

\* Release that removes the first block of the list, whichever block matches.
PhysicalMemory_Release_first(m, start, len) ==
    LET Match(b) == start = b.start_addr /\ len = b.size
        index == FirstIndex({i \in 1 .. Len(m) : Match(m[i])})
    IN  IF index # 0
        THEN [ok |-> TRUE, m |-> RemoveAt(m, 1), vaddr |-> m[index].map_vaddr,
              size |-> m[index].map_size, gpu_mode |-> m[index].gpu_mode]
        ELSE [ok |-> FALSE, m |-> m, vaddr |-> 0, size |-> 0, gpu_mode |-> "NoAccess"]

\* bool PhysicalMemory::Release(start, len, vaddr, size, gpu_mode)
PhysicalMemory_Release(m, start, len) ==
    LET Match(b) == start = b.start_addr /\ len = b.size
        index == FirstIndex({i \in 1 .. Len(m) : Match(m[i])})
    IN  IF index # 0
        THEN [ok |-> TRUE, m |-> RemoveAt(m, index), vaddr |-> m[index].map_vaddr,
              size |-> m[index].map_size, gpu_mode |-> m[index].gpu_mode]
        ELSE [ok |-> FALSE, m |-> m, vaddr |-> 0, size |-> 0, gpu_mode |-> "NoAccess"]

\* bool PhysicalMemory::Map(vaddr, phys_addr, len, prot, mode, gpu_mode)
PhysicalMemory_Map(m, vaddr, phys_addr, len, prot, mode, gpu_mode) ==
    LET Match(b) == phys_addr >= b.start_addr /\ phys_addr < Add(b.start_addr, b.size)
        index == FirstIndex({i \in 1 .. Len(m) : Match(m[i])})
    IN  IF index = 0 THEN [ok |-> FALSE, m |-> m]
        ELSE IF m[index].map_vaddr # 0 \/ m[index].map_size # 0
        THEN [ok |-> FALSE, m |-> m]
        ELSE [ok |-> TRUE,
              m |-> [m EXCEPT ![index] =
                        [@ EXCEPT !.map_vaddr = vaddr, !.map_size = len, !.prot = prot,
                                  !.mode = mode, !.gpu_mode = gpu_mode]]]

\* bool PhysicalMemory::Unmap(vaddr, size, gpu_mode)
PhysicalMemory_Unmap(m, vaddr, size) ==
    LET Match(b) == b.map_vaddr = vaddr /\ b.map_size = size
        index == FirstIndex({i \in 1 .. Len(m) : Match(m[i])})
    IN  IF index = 0 THEN [ok |-> FALSE, m |-> m, gpu_mode |-> "NoAccess"]
        ELSE [ok |-> TRUE, gpu_mode |-> m[index].gpu_mode,
              m |-> [m EXCEPT ![index] =
                        [@ EXCEPT !.gpu_mode = "NoAccess", !.map_size = 0, !.map_vaddr = 0,
                                  !.prot = 0, !.mode = "NoAccess"]]]

\* The test of Find with the end of the range included.
FindMatch_inclusive(b, vaddr) == vaddr >= b.map_vaddr /\ vaddr <= Add(b.map_vaddr, b.map_size)

\* The test in the lambda both Find methods hand to std::any_of.
FindMatch(b, vaddr) == vaddr >= b.map_vaddr /\ vaddr < Add(b.map_vaddr, b.map_size)

\* What both Find methods do with the list (std::any_of stops at the first match).
FindIn(m, vaddr) ==
    LET Match(b) == FindMatch(b, vaddr)
        index == FirstIndex({i \in 1 .. Len(m) : Match(m[i])})
    IN  IF index = 0
        THEN [ok |-> FALSE, base_addr |-> 0, len |-> 0, prot |-> 0,
              mode |-> "NoAccess", gpu_mode |-> "NoAccess"]
        ELSE [ok |-> TRUE, base_addr |-> m[index].map_vaddr, len |-> m[index].map_size,
              prot |-> m[index].prot, mode |-> m[index].mode,
              gpu_mode |-> m[index].gpu_mode]

\* bool PhysicalMemory::Find(vaddr, base_addr, len, prot, mode, gpu_mode)
PhysicalMemory_Find(m, vaddr) == FindIn(m, vaddr)

\* --------------------------------------------------------- FlexibleMemory

\* bool FlexibleMemory::Map(vaddr, len, prot, mode, gpu_mode)
FlexibleMemory_Map(m, vaddr, len, prot, mode, gpu_mode) ==
    [ok |-> TRUE,
     m |-> Append(m, [map_vaddr |-> vaddr, map_size |-> len, prot |-> prot,
                      mode |-> mode, gpu_mode |-> gpu_mode])]

\* Unmap that reports the match and keeps the entry.
FlexibleMemory_Unmap_keep(m, vaddr, size) ==
    LET Match(b) == b.map_vaddr = vaddr /\ b.map_size = size
        index == FirstIndex({i \in 1 .. Len(m) : Match(m[i])})
    IN  IF index = 0 THEN [ok |-> FALSE, m |-> m, gpu_mode |-> "NoAccess"]
        ELSE [ok |-> TRUE, m |-> m, gpu_mode |-> m[index].gpu_mode]

\* bool FlexibleMemory::Unmap(vaddr, size, gpu_mode)
FlexibleMemory_Unmap(m, vaddr, size) ==
    LET Match(b) == b.map_vaddr = vaddr /\ b.map_size = size
        index == FirstIndex({i \in 1 .. Len(m) : Match(m[i])})
    IN  IF index = 0 THEN [ok |-> FALSE, m |-> m, gpu_mode |-> "NoAccess"]
        ELSE [ok |-> TRUE, m |-> RemoveAt(m, index), gpu_mode |-> m[index].gpu_mode]

\* bool FlexibleMemory::Find(vaddr, base_addr, len, prot, mode, gpu_mode)
FlexibleMemory_Find(m, vaddr) == FindIn(m, vaddr)

\* ------------------------------------------------------------------ calls

\* The guest threads that call the Kernel Memory API.
Threads == {"t1", "t2"}

\* KYTY_SUBSYSTEM_INIT(Memory): both managers are constructed with empty lists.
Init ==
    /\ phys = <<>>
    /\ flex = <<>>
    /\ ret = [op |-> "Init", ok |-> TRUE]
    /\ trail = <<>>
    /\ host = {}
    /\ th = [t \in Threads |-> [pc |-> "idle"]]

IsAllocs(t) == \A i \in 1 .. Len(t) : t[i].op = "Alloc"

\* What the history says a Release was the release of, the two Allocs before it
\* having returned A for len1 and then B for len2: "top" for Release(B, len2) with
\* B = A + len1 ("stacked" when a block ended above A as A was returned), "hole"
\* for Release(A, len1) with B above A, "other" for the remaining cases.
Released(t) ==
    IF Len(t) = 3
    THEN IF t[3].addr = t[2].addr /\ t[3].len = t[2].len
         THEN (IF t[2].addr = t[1].addr + t[1].len
               THEN (IF t[1].topmost THEN "top" ELSE "stacked")
               ELSE "other")
         ELSE (IF t[2].addr > t[1].addr THEN "hole" ELSE "other")
    ELSE "none"

\* The history after one more successful Alloc: the Alloc before it, if one is
\* the latest call of the history, and this one, marked with what was released
\* right before it.
PushAlloc(t, e) ==
    LET new == [e EXCEPT !.after = Released(t)]
    IN  IF t # <<>> /\ t[Len(t)].op = "Alloc"
        THEN <<[t[Len(t)] EXCEPT !.after = "none"], new>>
        ELSE <<new>>

\* The history after one more successful Release: only a Release, right after two
\* Allocs, of what one of them allocated is kept.
PushRelease(t, e) ==
    IF /\ Len(t) = 2
       /\ IsAllocs(t)
       /\ \E i \in 1 .. 2 : t[i].addr = e.addr /\ t[i].len = e.len
    THEN Append(t, e)
    ELSE <<>>

\* The history after a successful Map of (vaddr, len) on list m by op ("Map" of
\* the Physical Manager, "FlexMap" of the Flexible Manager).
PushMap(op, m, vaddr, len, prot, mode, gpu_mode) ==
    <<[op |-> op, vaddr |-> vaddr, size |-> len, prot |-> prot, mode |-> mode,
       gpu_mode |-> gpu_mode, before |-> m]>>

\* The history after a successful Unmap of (vaddr, size) by the manager whose Map
\* is op: a round trip when it follows that manager's Map of the same (vaddr, size),
\* "fresh" when no entry stored that (vaddr, size) before the Map.
PushUnmap(t, op, vaddr, size) ==
    IF Len(t) = 1 /\ t[1].op = op /\ t[1].vaddr = vaddr /\ t[1].size = size
    THEN <<[op |-> "Unmap", after |-> op,
            fresh |-> \A i \in 1 .. Len(t[1].before) :
                         ~(/\ t[1].before[i].map_vaddr = vaddr
                           /\ t[1].before[i].map_size = size)]>>
    ELSE <<>>

\* A thread calls g_physical_memory->Alloc(...).
Alloc(search_start, search_end, len, alignment, out_null) ==
    \E r \in {PhysicalMemory_Alloc(phys, search_start, search_end, len, alignment, out_null)} :
        /\ phys' = r.m
        /\ ret' = [op |-> "Alloc", ok |-> r.ok, phys_addr_out |-> r.phys_addr_out,
                   alignment |-> alignment]
        /\ trail' = IF r.ok
                    THEN PushAlloc(trail, [op |-> "Alloc", addr |-> r.phys_addr_out,
                                           len |-> len, after |-> "none",
                                           topmost |-> \A i \in 1 .. Len(phys) :
                                               phys[i].start_addr + phys[i].size
                                                   <= r.phys_addr_out])
                    ELSE trail
        /\ UNCHANGED <<flex, host, th>>

\* A thread calls g_physical_memory->Release(...).
Release(start, len) ==
    \E r \in {PhysicalMemory_Release(phys, start, len)} :
        /\ phys' = r.m
        /\ ret' = [op |-> "Release", ok |-> r.ok,
                   vaddr |-> r.vaddr, size |-> r.size, gpu_mode |-> r.gpu_mode]
        /\ trail' = IF r.ok
                    THEN PushRelease(trail, [op |-> "Release", addr |-> start, len |-> len,
                                             after |-> "none"])
                    ELSE trail
        /\ UNCHANGED <<flex, host, th>>

\* A thread calls g_physical_memory->Map(...).
Map(vaddr, phys_addr, len, prot, mode, gpu_mode) ==
    \E r \in {PhysicalMemory_Map(phys, vaddr, phys_addr, len, prot, mode, gpu_mode)} :
        /\ phys' = r.m
        /\ ret' = [op |-> "Map", ok |-> r.ok]
        /\ trail' = IF r.ok THEN PushMap("Map", phys, vaddr, len, prot, mode, gpu_mode) ELSE trail
        /\ UNCHANGED <<flex, host, th>>

\* A thread calls g_physical_memory->Unmap(...).
Unmap(vaddr, size) ==
    \E r \in {PhysicalMemory_Unmap(phys, vaddr, size)} :
        /\ phys' = r.m
        /\ ret' = [op |-> "Unmap", ok |-> r.ok, gpu_mode |-> r.gpu_mode]
        /\ trail' = IF r.ok THEN PushUnmap(trail, "Map", vaddr, size) ELSE trail
        /\ UNCHANGED <<flex, host, th>>

\* A thread calls g_physical_memory->Find(...) with all five output pointers.
Find(vaddr) ==
    \E r \in {PhysicalMemory_Find(phys, vaddr)} :
        /\ ret' = [op |-> "Find", ok |-> r.ok, base_addr |-> r.base_addr,
                   len |-> r.len, prot |-> r.prot, mode |-> r.mode, gpu_mode |-> r.gpu_mode]
        /\ UNCHANGED <<phys, flex, trail, host, th>>

\* A thread calls g_flexible_memory->Map(...).
FlexMap(vaddr, len, prot, mode, gpu_mode) ==
    /\ Len(phys) + Len(flex) < MaxEntries
    /\ \E r \in {FlexibleMemory_Map(flex, vaddr, len, prot, mode, gpu_mode)} :
        /\ flex' = r.m
        /\ ret' = [op |-> "FlexMap", ok |-> r.ok]
        /\ trail' = IF r.ok THEN PushMap("FlexMap", flex, vaddr, len, prot, mode, gpu_mode) ELSE trail
        /\ UNCHANGED <<phys, host, th>>

\* A thread calls g_flexible_memory->Unmap(...).
FlexUnmap(vaddr, size) ==
    \E r \in {FlexibleMemory_Unmap(flex, vaddr, size)} :
        /\ flex' = r.m
        /\ ret' = [op |-> "FlexUnmap", ok |-> r.ok, gpu_mode |-> r.gpu_mode]
        /\ trail' = IF r.ok THEN PushUnmap(trail, "FlexMap", vaddr, size) ELSE trail
        /\ UNCHANGED <<phys, host, th>>

\* A thread calls g_flexible_memory->Find(...) with all five output pointers.
FlexFind(vaddr) ==
    \E r \in {FlexibleMemory_Find(flex, vaddr)} :
        /\ ret' = [op |-> "FlexFind", ok |-> r.ok,
                   base_addr |-> r.base_addr, len |-> r.len, prot |-> r.prot,
                   mode |-> r.mode, gpu_mode |-> r.gpu_mode]
        /\ UNCHANGED <<phys, flex, trail, host, th>>

\* ----------------------------------------------------------- the callers

\* The lens the callers pass to Alloc and Release.
Lens == {0, 1, 2, Modulus - 1}

\* The alignments the callers pass.
Aligns == {0, 1, 2, 3, 4, Modulus - 1}

\* Search windows [search_start, search_end] the callers of Alloc pass.
AllocWindows == {<<0, Modulus - 1>>, <<1, Modulus \div 2>>}

\* The (start, len) the callers of Release pass: a block's own range, ranges that
\* overlap a block without matching it, and a range no block has.
ReleaseArgs(m) ==
    {<<0, 1>>} \cup
    UNION {{<<m[i].start_addr, m[i].size>>,
            <<m[i].start_addr, Add(m[i].size, 1)>>,
            <<Add(m[i].start_addr, 1), m[i].size>>} : i \in 1 .. Len(m)}

\* The (vaddr, len) the callers pass to Map and Unmap: the pair an unmapped block
\* holds, an empty range, two ranges that overlap each other, and a range that
\* ends at the top of the address space.
MapArgs == {<<0, 0>>, <<1, 0>>, <<1, 2>>, <<2, 2>>, <<Modulus - 1, 1>>}

\* The virtual addresses the callers pass to Find.
FindAddrs == {0, 1, 2, 3, Modulus - 1}

\* The physical addresses the callers pass to Map.
PhysAddrs == {0, 2, Modulus - 1}

\* The (prot, mode, gpu_mode) the callers pass to Map: what KernelMapDirectMemory
\* decodes prot 1 and prot 0x33 to.
Attrs == {<<1, "Read", "NoAccess">>, <<51, "ReadWrite", "ReadWrite">>}

AllocCall ==
    /\ Len(phys) < MaxBlocks
    /\ \E w \in AllocWindows, len \in Lens, alignment \in Aligns :
        Alloc(w[1], w[2], len, alignment, FALSE)

AllocNullOut == Len(phys) < MaxBlocks /\ Alloc(0, Modulus - 1, 1, 0, TRUE)

ReleaseCall == \E a \in ReleaseArgs(phys) : Release(a[1], a[2])

\* Threads calling only Alloc and Release of the Physical Manager.
NextAlloc == AllocCall \/ AllocNullOut \/ ReleaseCall

SpecAlloc == Init /\ [][NextAlloc]_vars

\* The Allocs of the threads that also map: a block of 2, and a block of
\* Modulus - 1 with alignment Modulus - 1.
AllocForMap ==
    /\ Len(phys) + Len(flex) < MaxEntries
    /\ \E a \in {<<2, 0>>, <<Modulus - 1, Modulus - 1>>} :
        Alloc(0, Modulus - 1, a[1], a[2], FALSE)

MapCall ==
    \E v \in MapArgs, phys_addr \in PhysAddrs, a \in Attrs :
        Map(v[1], phys_addr, v[2], a[1], a[2], a[3])

UnmapCall == \E v \in MapArgs : Unmap(v[1], v[2])

FindCall == \E vaddr \in FindAddrs : Find(vaddr)

FlexMapCall ==
    \E v \in MapArgs, a \in Attrs : FlexMap(v[1], v[2], a[1], a[2], a[3])

FlexUnmapCall == \E v \in MapArgs : FlexUnmap(v[1], v[2])

FlexFindCall == \E vaddr \in FindAddrs : FlexFind(vaddr)

\* Threads calling every method of both managers.
Next ==
    \/ AllocForMap
    \/ ReleaseCall
    \/ MapCall
    \/ UnmapCall
    \/ FindCall
    \/ FlexMapCall
    \/ FlexUnmapCall
    \/ FlexFindCall

Spec == Init /\ [][Next]_vars

\* ------------------------------------------------------- Kernel Memory API

\* PhysicalMemory::Size(): static_cast<uint64_t>(5376) * 1024 * 1024 bytes.  A
\* word of the model is 2^(64 - WordBits) bytes, so Size() is num / 2^shift words
\* with num = 5376 and shift = 44 - WordBits: a fraction of one word.
Size == [num |-> 5376, shift |-> 44 - WordBits]

\* The int64_t values: WordBits bits, two's complement.
Int64 == (0 - Modulus \div 2) .. (Modulus \div 2 - 1)

\* static_cast<uint64_t>(x) of an int64_t x.
ToWord(x) == (x + Modulus) % Modulus

\* The switch (prot) of KernelMapNamedFlexibleMemory: the mode prot decodes to,
\* gpu_mode staying NoAccess; ok is FALSE for the default branch, EXIT("unknown prot").
FlexibleProt(prot) ==
    CASE prot = 0 -> [ok |-> TRUE, mode |-> "NoAccess", gpu_mode |-> "NoAccess"]
      [] prot = 1 -> [ok |-> TRUE, mode |-> "Read", gpu_mode |-> "NoAccess"]
      [] prot \in {2, 3} -> [ok |-> TRUE, mode |-> "ReadWrite", gpu_mode |-> "NoAccess"]
      [] prot = 4 -> [ok |-> TRUE, mode |-> "Execute", gpu_mode |-> "NoAccess"]
      [] prot = 5 -> [ok |-> TRUE, mode |-> "ExecuteRead", gpu_mode |-> "NoAccess"]
      [] prot \in {6, 7} -> [ok |-> TRUE, mode |-> "ExecuteReadWrite", gpu_mode |-> "NoAccess"]
      [] OTHER -> [ok |-> FALSE, mode |-> "NoAccess", gpu_mode |-> "NoAccess"]

\* KernelMapDirectMemory's switch without its case 0x32 / case 0x33.
DirectProt_cpu(prot) == FlexibleProt(prot)

\* The switch (prot) of KernelMapDirectMemory: as above, and 0x32 and 0x33 decode
\* to ReadWrite for the CPU and for the GPU.
DirectProt(prot) ==
    CASE prot = 0 -> [ok |-> TRUE, mode |-> "NoAccess", gpu_mode |-> "NoAccess"]
      [] prot = 1 -> [ok |-> TRUE, mode |-> "Read", gpu_mode |-> "NoAccess"]
      [] prot \in {2, 3} -> [ok |-> TRUE, mode |-> "ReadWrite", gpu_mode |-> "NoAccess"]
      [] prot = 4 -> [ok |-> TRUE, mode |-> "Execute", gpu_mode |-> "NoAccess"]
      [] prot = 5 -> [ok |-> TRUE, mode |-> "ExecuteRead", gpu_mode |-> "NoAccess"]
      [] prot \in {6, 7} -> [ok |-> TRUE, mode |-> "ExecuteReadWrite", gpu_mode |-> "NoAccess"]
      [] prot \in {50, 51} -> [ok |-> TRUE, mode |-> "ReadWrite", gpu_mode |-> "ReadWrite"]
      [] OTHER -> [ok |-> FALSE, mode |-> "NoAccess", gpu_mode |-> "NoAccess"]

\* The addresses the host hands out.
HostAddrs == {1, 3}

\* [addr, addr + len) is free for the host to reserve: it is not null, it ends
\* below the top of the address space, and it shares no address and no base with
\* a live reservation.
Unreserved(h, addr, len) ==
    /\ addr # 0
    /\ addr + len < Modulus
    /\ \A r \in h :
        /\ r.addr # addr
        /\ ~(addr < r.addr + r.len /\ r.addr < addr + len)

\* VirtualMemory::Alloc / AllocAligned: what the host may return for a reservation
\* of len bytes, null (failure) or the base of a free range.
VirtualMemory_Alloc(h, len) == {0} \cup {addr \in HostAddrs : Unreserved(h, addr, len)}

\* The reservations after VirtualMemory::Alloc returned addr.
Reserved(h, addr, len) == IF addr = 0 THEN h ELSE h \cup {[addr |-> addr, len |-> len]}

\* addr is the base of a live reservation.
Live(h, addr) == \E r \in h : r.addr = addr

\* VirtualMemory::Free(addr): the reservations after it.
VirtualMemory_Free(h, addr) == {r \in h : r.addr # addr}

\* One entry of a call's log: the call made, its address and length arguments, and
\* its result (for VirtualMemory::Free: whether the address was reserved).
Ev(call, addr, len, ok) == [call |-> call, addr |-> addr, len |-> len, ok |-> ok]

\* No thread has run into EXIT(...): the process is alive.
Alive == \A t \in Threads : th[t].pc # "fatal"

\* Thread t is between two calls of the Kernel Memory API.
Ready(t) == Alive /\ th[t].pc \in {"idle", "done"}

\* Thread t enters op with the arguments arg, at pc.
Enter(pc, op, arg) ==
    [pc |-> pc, op |-> op, arg |-> arg, loc |-> [vaddr |-> 0, size |-> 0, mode |-> "NoAccess", gpu_mode |-> "NoAccess"],
     out |-> [start |-> 0, end |-> 0, prot |-> 0], log |-> <<>>, status |-> "none",
     before |-> <<phys, flex, host>>]

\* The teardown KernelMunmap and KernelReleaseDirectMemory share, its first call:
\* VirtualMemory::Free(vaddr) unless vaddr and size are both 0.
FreeCall(h, vaddr, size) ==
    IF vaddr # 0 \/ size # 0
    THEN <<Ev("VirtualMemory::Free", vaddr, 0, Live(h, vaddr))>>
    ELSE <<>>

\* The reservations after that call.
TornDown(h, vaddr, size) ==
    IF vaddr # 0 \/ size # 0 THEN VirtualMemory_Free(h, vaddr) ELSE h

\* KernelMapNamedFlexibleMemory, up to and including VirtualMemory::Alloc: the
\* EXIT checks, the decoding of prot, and the host reservation of len bytes.
KernelMapNamedFlexibleMemory(t, addr_null, len, prot, flags) ==
    /\ Ready(t)
    /\ Len(phys) + Len(flex) < MaxEntries
    /\ LET d == FlexibleProt(prot)
           arg == [addr_null |-> addr_null, len |-> len, prot |-> prot, flags |-> flags]
       IN  IF addr_null \/ flags # 0 \/ ~d.ok
           THEN /\ th' = [th EXCEPT ![t] = Enter("fatal", "KernelMapNamedFlexibleMemory", arg)]
                /\ UNCHANGED host
           ELSE \E out_addr \in VirtualMemory_Alloc(host, len) :
                /\ host' = Reserved(host, out_addr, len)
                /\ th' = [th EXCEPT ![t] =
                            [Enter("flexible_map", "KernelMapNamedFlexibleMemory", arg) EXCEPT
                                !.loc = [vaddr |-> out_addr, size |-> len, mode |-> d.mode,
                                         gpu_mode |-> d.gpu_mode],
                                !.log = <<Ev("VirtualMemory::Alloc", out_addr, len, out_addr # 0)>>]]
    /\ UNCHANGED <<phys, flex, ret, trail>>

\* KernelMapNamedFlexibleMemory, from g_flexible_memory->Map to the return: the
\* mapping is registered, and only then is out_addr tested for null.
KernelMapNamedFlexibleMemory_Map(t) ==
    /\ Alive
    /\ th[t].pc = "flexible_map"
    /\ LET c == th[t]
           r == FlexibleMemory_Map(flex, c.loc.vaddr, c.arg.len, c.arg.prot, c.loc.mode,
                                   c.loc.gpu_mode)
       IN  /\ flex' = r.m
           /\ IF ~r.ok
              THEN /\ host' = VirtualMemory_Free(host, c.loc.vaddr)
                   /\ th' = [th EXCEPT ![t] =
                               [c EXCEPT !.pc = "done", !.status = "KERNEL_ERROR_ENOMEM",
                                         !.log = c.log \o
                                            <<Ev("FlexibleMemory::Map", c.loc.vaddr, c.arg.len, FALSE),
                                              Ev("VirtualMemory::Free", c.loc.vaddr, 0,
                                                 Live(host, c.loc.vaddr))>>]]
              ELSE /\ UNCHANGED host
                   /\ th' = [th EXCEPT ![t] =
                               [c EXCEPT !.pc = "done",
                                         !.status = IF c.loc.vaddr = 0
                                                    THEN "KERNEL_ERROR_ENOMEM" ELSE "OK",
                                         !.log = Append(c.log,
                                            Ev("FlexibleMemory::Map", c.loc.vaddr, c.arg.len, TRUE))]]
    /\ UNCHANGED <<phys, ret, trail>>

\* KernelMunmap, up to and including g_physical_memory->Unmap.
KernelMunmap(t, vaddr, len) ==
    /\ Ready(t)
    /\ LET arg == [vaddr |-> vaddr, len |-> len]
           c == Enter("done", "KernelMunmap", arg)
           r == PhysicalMemory_Unmap(phys, vaddr, len)
       IN  IF len = 0
           THEN /\ th' = [th EXCEPT ![t] = [c EXCEPT !.status = "KERNEL_ERROR_EINVAL"]]
                /\ UNCHANGED phys
           ELSE /\ phys' = r.m
                /\ th' = [th EXCEPT ![t] =
                            [c EXCEPT !.pc = IF r.ok THEN "munmap_free" ELSE "munmap_flexible",
                                      !.loc = [vaddr |-> vaddr, size |-> len, mode |-> "NoAccess",
                                               gpu_mode |-> r.gpu_mode],
                                      !.log = <<Ev("PhysicalMemory::Unmap", vaddr, len, r.ok)>>]]
    /\ UNCHANGED <<flex, host, ret, trail>>

\* KernelMunmap, g_flexible_memory->Unmap after the Physical Manager's Unmap failed;
\* EXIT_NOT_IMPLEMENTED(!result) if this one fails too.
KernelMunmap_Flexible(t) ==
    /\ Alive
    /\ th[t].pc = "munmap_flexible"
    /\ LET c == th[t]
           r == FlexibleMemory_Unmap(flex, c.arg.vaddr, c.arg.len)
       IN  /\ flex' = r.m
           /\ th' = [th EXCEPT ![t] =
                       [c EXCEPT !.pc = IF r.ok THEN "munmap_free" ELSE "fatal",
                                 !.loc.gpu_mode = r.gpu_mode,
                                 !.log = Append(c.log,
                                    Ev("FlexibleMemory::Unmap", c.arg.vaddr, c.arg.len, r.ok))]]
    /\ UNCHANGED <<phys, host, ret, trail>>

\* KernelMunmap, VirtualMemory::Free(vaddr); the call returns OK after it unless
\* the mapping was one of the GPU.
KernelMunmap_Free(t) ==
    /\ Alive
    /\ th[t].pc = "munmap_free"
    /\ LET c == th[t]
           gpu == c.loc.gpu_mode # "NoAccess"
       IN  /\ host' = TornDown(host, c.arg.vaddr, c.arg.len)
           /\ th' = [th EXCEPT ![t] =
                       [c EXCEPT !.pc = IF gpu THEN "munmap_wait" ELSE "done",
                                 !.status = IF gpu THEN "none" ELSE "OK",
                                 !.log = c.log \o FreeCall(host, c.arg.vaddr, c.arg.len)]]
    /\ UNCHANGED <<phys, flex, ret, trail>>

\* KernelMunmap going on to GpuMemoryFree without GraphicsRunWait.
KernelMunmap_Wait_skip(t) ==
    /\ Alive
    /\ th[t].pc = "munmap_wait"
    /\ th' = [th EXCEPT ![t] = [th[t] EXCEPT !.pc = "munmap_gpu"]]
    /\ UNCHANGED <<phys, flex, host, ret, trail>>

\* KernelMunmap of a GPU mapping, Graphics::GraphicsRunWait(): the wait for the
\* GPU to become idle has ended.
KernelMunmap_Wait(t) ==
    /\ Alive
    /\ th[t].pc = "munmap_wait"
    /\ th' = [th EXCEPT ![t] =
                [th[t] EXCEPT !.pc = "munmap_gpu",
                              !.log = Append(th[t].log, Ev("GraphicsRunWait", 0, 0, TRUE))]]
    /\ UNCHANGED <<phys, flex, host, ret, trail>>

\* KernelMunmap of a GPU mapping, Graphics::GpuMemoryFree(ctx, vaddr, len) and the
\* return of OK.
KernelMunmap_GpuFree(t) ==
    /\ Alive
    /\ th[t].pc = "munmap_gpu"
    /\ th' = [th EXCEPT ![t] =
                [th[t] EXCEPT !.pc = "done", !.status = "OK",
                              !.log = Append(th[t].log,
                                             Ev("GpuMemoryFree", th[t].arg.vaddr,
                                                th[t].arg.len, TRUE))]]
    /\ UNCHANGED <<phys, flex, host, ret, trail>>

\* KernelGetDirectMemorySize: returns PhysicalMemory::Size().
KernelGetDirectMemorySize(t) ==
    /\ Ready(t)
    /\ th' = [th EXCEPT ![t] =
                [Enter("done", "KernelGetDirectMemorySize", [none |-> 0]) EXCEPT
                    !.status = "OK", !.out = [size |-> Size]]]
    /\ UNCHANGED <<phys, flex, host, ret, trail>>

\* KernelAllocateDirectMemory: the argument checks on the int64_t window, and
\* g_physical_memory->Alloc.
KernelAllocateDirectMemory(t, search_start, search_end, len, alignment, out_null) ==
    /\ Ready(t)
    /\ Len(phys) + Len(flex) < MaxEntries
    /\ LET arg == [search_start |-> search_start, search_end |-> search_end, len |-> len,
                   alignment |-> alignment]
           c == Enter("done", "KernelAllocateDirectMemory", arg)
           r == PhysicalMemory_Alloc(phys, ToWord(search_start), ToWord(search_end), len,
                                     alignment, FALSE)
       IN  IF search_start < 0 \/ search_end <= search_start \/ len = 0 \/ out_null
           THEN /\ th' = [th EXCEPT ![t] = [c EXCEPT !.status = "KERNEL_ERROR_EINVAL"]]
                /\ UNCHANGED phys
           ELSE /\ phys' = r.m
                /\ th' = [th EXCEPT ![t] =
                            [c EXCEPT !.status = IF r.ok THEN "OK" ELSE "KERNEL_ERROR_EAGAIN",
                                      !.out.start = r.phys_addr_out,
                                      !.log = <<Ev("PhysicalMemory::Alloc", r.phys_addr_out,
                                                   len, r.ok)>>]]
    /\ UNCHANGED <<flex, host, ret, trail>>

\* KernelReleaseDirectMemory, up to and including g_physical_memory->Release;
\* EXIT_NOT_IMPLEMENTED(!result) if no block is (start, len).
KernelReleaseDirectMemory(t, start, len) ==
    /\ Ready(t)
    /\ LET arg == [start |-> start, len |-> len]
           c == Enter("done", "KernelReleaseDirectMemory", arg)
           r == PhysicalMemory_Release(phys, ToWord(start), len)
       IN  IF start < 0 \/ len = 0
           THEN /\ th' = [th EXCEPT ![t] = [c EXCEPT !.status = "KERNEL_ERROR_EINVAL"]]
                /\ UNCHANGED phys
           ELSE /\ phys' = r.m
                /\ th' = [th EXCEPT ![t] =
                            [c EXCEPT !.pc = IF r.ok THEN "release_free" ELSE "fatal",
                                      !.loc = [vaddr |-> r.vaddr, size |-> r.size,
                                               mode |-> "NoAccess", gpu_mode |-> r.gpu_mode],
                                      !.log = <<Ev("PhysicalMemory::Release", ToWord(start), len,
                                                   r.ok)>>]]
    /\ UNCHANGED <<flex, host, ret, trail>>

\* KernelReleaseDirectMemory freeing start, the physical address, in place of the
\* vaddr that Release returned.
KernelReleaseDirectMemory_Free_args(t) ==
    /\ Alive
    /\ th[t].pc = "release_free"
    /\ LET c == th[t]
           gpu == c.loc.gpu_mode # "NoAccess"
       IN  /\ host' = TornDown(host, ToWord(c.arg.start), c.arg.len)
           /\ th' = [th EXCEPT ![t] =
                       [c EXCEPT !.pc = IF gpu THEN "release_wait" ELSE "done",
                                 !.status = IF gpu THEN "none" ELSE "OK",
                                 !.log = c.log \o FreeCall(host, ToWord(c.arg.start), c.arg.len)]]
    /\ UNCHANGED <<phys, flex, ret, trail>>

\* KernelReleaseDirectMemory, for a block that was mapped VirtualMemory::Free(vaddr);
\* the call returns OK after it unless the mapping was one of the GPU.
KernelReleaseDirectMemory_Free(t) ==
    /\ Alive
    /\ th[t].pc = "release_free"
    /\ LET c == th[t]
           gpu == c.loc.gpu_mode # "NoAccess"
       IN  /\ host' = TornDown(host, c.loc.vaddr, c.loc.size)
           /\ th' = [th EXCEPT ![t] =
                       [c EXCEPT !.pc = IF gpu THEN "release_wait" ELSE "done",
                                 !.status = IF gpu THEN "none" ELSE "OK",
                                 !.log = c.log \o FreeCall(host, c.loc.vaddr, c.loc.size)]]
    /\ UNCHANGED <<phys, flex, ret, trail>>

\* KernelReleaseDirectMemory of a GPU-mapped block, Graphics::GraphicsRunWait():
\* the wait for the GPU to become idle has ended.
KernelReleaseDirectMemory_Wait(t) ==
    /\ Alive
    /\ th[t].pc = "release_wait"
    /\ th' = [th EXCEPT ![t] =
                [th[t] EXCEPT !.pc = "release_gpu",
                              !.log = Append(th[t].log, Ev("GraphicsRunWait", 0, 0, TRUE))]]
    /\ UNCHANGED <<phys, flex, host, ret, trail>>

\* KernelReleaseDirectMemory of a GPU-mapped block,
\* Graphics::GpuMemoryFree(ctx, vaddr, size) and the return of OK.
KernelReleaseDirectMemory_GpuFree(t) ==
    /\ Alive
    /\ th[t].pc = "release_gpu"
    /\ th' = [th EXCEPT ![t] =
                [th[t] EXCEPT !.pc = "done", !.status = "OK",
                              !.log = Append(th[t].log,
                                             Ev("GpuMemoryFree", th[t].loc.vaddr,
                                                th[t].loc.size, TRUE))]]
    /\ UNCHANGED <<phys, flex, host, ret, trail>>

\* KernelMapDirectMemory, up to the test of out_addr: the EXIT checks, the decoding
\* of prot, the host reservation by VirtualMemory::AllocAligned, and the return of
\* KERNEL_ERROR_ENOMEM for a null out_addr.
KernelMapDirectMemory(t, addr_null, len, prot, flags, direct_memory_start) ==
    /\ Ready(t)
    /\ LET d == DirectProt(prot)
           arg == [addr_null |-> addr_null, len |-> len, prot |-> prot, flags |-> flags,
                   direct_memory_start |-> direct_memory_start]
       IN  IF addr_null \/ flags # 0 \/ ~d.ok
           THEN /\ th' = [th EXCEPT ![t] = Enter("fatal", "KernelMapDirectMemory", arg)]
                /\ UNCHANGED host
           ELSE \E out_addr \in VirtualMemory_Alloc(host, len) :
                /\ host' = Reserved(host, out_addr, len)
                /\ th' = [th EXCEPT ![t] =
                            [Enter(IF out_addr = 0 THEN "done" ELSE "direct_map",
                                   "KernelMapDirectMemory", arg) EXCEPT
                                !.status = IF out_addr = 0 THEN "KERNEL_ERROR_ENOMEM" ELSE "none",
                                !.loc = [vaddr |-> out_addr, size |-> len, mode |-> d.mode,
                                         gpu_mode |-> d.gpu_mode],
                                !.log = <<Ev("VirtualMemory::AllocAligned", out_addr, len,
                                             out_addr # 0)>>]]
    /\ UNCHANGED <<phys, flex, ret, trail>>

\* KernelMapDirectMemory, g_physical_memory->Map; the call returns OK after a
\* successful Map unless the mapping is one of the GPU.
KernelMapDirectMemory_Map(t) ==
    /\ Alive
    /\ th[t].pc = "direct_map"
    /\ LET c == th[t]
           r == PhysicalMemory_Map(phys, c.loc.vaddr, ToWord(c.arg.direct_memory_start),
                                   c.arg.len, c.arg.prot, c.loc.mode, c.loc.gpu_mode)
           gpu == c.loc.gpu_mode # "NoAccess"
       IN  /\ phys' = r.m
           /\ th' = [th EXCEPT ![t] =
                       [c EXCEPT !.pc = IF ~r.ok THEN "direct_free"
                                        ELSE IF gpu THEN "direct_gpu" ELSE "done",
                                 !.status = IF r.ok /\ ~gpu THEN "OK" ELSE "none",
                                 !.log = Append(c.log, Ev("PhysicalMemory::Map", c.loc.vaddr,
                                                          c.arg.len, r.ok))]]
    /\ UNCHANGED <<flex, host, ret, trail>>

\* KernelMapDirectMemory of a GPU mapping after a successful Map:
\* Graphics::GpuMemorySetAllocatedRange(out_addr, len) and the return of OK.
KernelMapDirectMemory_SetAllocated(t) ==
    /\ Alive
    /\ th[t].pc = "direct_gpu"
    /\ th' = [th EXCEPT ![t] =
                [th[t] EXCEPT !.pc = "done", !.status = "OK",
                              !.log = Append(th[t].log,
                                             Ev("GpuMemorySetAllocatedRange", th[t].loc.vaddr,
                                                th[t].arg.len, TRUE))]]
    /\ UNCHANGED <<phys, flex, host, ret, trail>>

\* KernelMapDirectMemory after a failed Map, returning KERNEL_ERROR_EBUSY without
\* VirtualMemory::Free(out_addr).
KernelMapDirectMemory_Free_keep(t) ==
    /\ Alive
    /\ th[t].pc = "direct_free"
    /\ th' = [th EXCEPT ![t] = [th[t] EXCEPT !.pc = "done", !.status = "KERNEL_ERROR_EBUSY"]]
    /\ UNCHANGED <<phys, flex, host, ret, trail>>

\* KernelMapDirectMemory after a failed Map: VirtualMemory::Free(out_addr) and the
\* return of KERNEL_ERROR_EBUSY.
KernelMapDirectMemory_Free(t) ==
    /\ Alive
    /\ th[t].pc = "direct_free"
    /\ LET c == th[t]
       IN  /\ host' = VirtualMemory_Free(host, c.loc.vaddr)
           /\ th' = [th EXCEPT ![t] =
                       [c EXCEPT !.pc = "done", !.status = "KERNEL_ERROR_EBUSY",
                                 !.log = Append(c.log, Ev("VirtualMemory::Free", c.loc.vaddr, 0,
                                                          Live(host, c.loc.vaddr)))]]
    /\ UNCHANGED <<phys, flex, ret, trail>>

\* The outputs with end one past the last byte.
QueryOut_exclusive(r) == [start |-> r.base_addr, end |-> Add(r.base_addr, r.len), prot |-> r.prot]

\* What KernelQueryMemoryProtection writes for a mapping Find found: start, end
\* (the last byte, base + len - 1 in uint64_t) and prot.
QueryOut(r) == [start |-> r.base_addr, end |-> Sub(Add(r.base_addr, r.len), 1), prot |-> r.prot]

\* KernelQueryMemoryProtection with the three output pointers, up to and including
\* g_physical_memory->Find; EXIT_NOT_IMPLEMENTED for a null addr.
KernelQueryMemoryProtection(t, addr) ==
    /\ Ready(t)
    /\ LET c == Enter("done", "KernelQueryMemoryProtection", [addr |-> addr])
           r == PhysicalMemory_Find(phys, addr)
       IN  th' = [th EXCEPT ![t] =
                    IF addr = 0
                    THEN [c EXCEPT !.pc = "fatal"]
                    ELSE IF r.ok
                    THEN [c EXCEPT !.status = "OK",
                                   !.out = QueryOut(r),
                                   !.log = <<Ev("PhysicalMemory::Find", addr, 0, TRUE)>>]
                    ELSE [c EXCEPT !.pc = "query_flexible",
                                   !.log = <<Ev("PhysicalMemory::Find", addr, 0, FALSE)>>]]
    /\ UNCHANGED <<phys, flex, host, ret, trail>>

\* KernelQueryMemoryProtection, g_flexible_memory->Find after the Physical
\* Manager's Find failed; KERNEL_ERROR_EACCES if this one fails too.
KernelQueryMemoryProtection_Flexible(t) ==
    /\ Alive
    /\ th[t].pc = "query_flexible"
    /\ LET c == th[t]
           r == FlexibleMemory_Find(flex, c.arg.addr)
           found == Ev("FlexibleMemory::Find", c.arg.addr, 0, r.ok)
       IN  th' = [th EXCEPT ![t] =
                    IF r.ok
                    THEN [c EXCEPT !.pc = "done", !.status = "OK",
                                   !.out = QueryOut(r),
                                   !.log = Append(c.log, found)]
                    ELSE [c EXCEPT !.pc = "done", !.status = "KERNEL_ERROR_EACCES",
                                   !.log = Append(c.log, found)]]
    /\ UNCHANGED <<phys, flex, host, ret, trail>>

\* ------------------------------------------------- the guest's API callers

\* The lens the guest passes to the mapping calls.
MapLens == {1, 2}

\* The int64_t search windows the guest passes to KernelAllocateDirectMemory: the
\* whole non-negative range, a negative start, and an empty window.
DirectWindows == {<<0, Modulus \div 2 - 1>>, <<0 - 1, 1>>, <<1, 1>>}

\* The (start, len) the guest passes to KernelReleaseDirectMemory: a block's own
\* range, a range inside a block, a negative start and an empty range.
DirectReleaseArgs(m) ==
    {<<0 - 1, 1>>, <<0, 0>>, <<0, 1>>} \cup
    {<<m[i].start_addr, m[i].size>> : i \in {j \in 1 .. Len(m) : m[j].start_addr < Modulus \div 2}}

\* The steps that carry on a mapping call of thread t that is in progress.
ContinueMap(t) ==
    \/ KernelMapNamedFlexibleMemory_Map(t)
    \/ KernelMapDirectMemory_Map(t)
    \/ KernelMapDirectMemory_SetAllocated(t)
    \/ KernelMapDirectMemory_Free(t)

\* The steps that carry on an unmapping or a releasing call of thread t that is in
\* progress.
ContinueUnmap(t) ==
    \/ KernelMunmap_Flexible(t)
    \/ KernelMunmap_Free(t)
    \/ KernelMunmap_Wait(t)
    \/ KernelMunmap_GpuFree(t)
    \/ KernelReleaseDirectMemory_Free(t)
    \/ KernelReleaseDirectMemory_Wait(t)
    \/ KernelReleaseDirectMemory_GpuFree(t)

\* The steps that carry on a call of thread t that is in progress.
Continue(t) ==
    \/ ContinueMap(t)
    \/ ContinueUnmap(t)
    \/ KernelQueryMemoryProtection_Flexible(t)

MapNamedFlexibleCall(t) ==
    \E len \in MapLens, prot \in {1, 3} :
        KernelMapNamedFlexibleMemory(t, FALSE, len, prot, 0)

MapDirectCall(t) ==
    \E len \in MapLens, prot \in {1, 51}, start \in {0, 0 - 1} :
        KernelMapDirectMemory(t, FALSE, len, prot, 0, start)

\* The calls the guest makes against the ABI: nonzero flags, an unknown prot, a
\* null addr.
BadMapCall(t) ==
    \/ KernelMapNamedFlexibleMemory(t, FALSE, 1, 1, 1)
    \/ KernelMapNamedFlexibleMemory(t, FALSE, 1, 51, 0)
    \/ KernelMapNamedFlexibleMemory(t, TRUE, 1, 1, 0)
    \/ KernelMapDirectMemory(t, FALSE, 1, 1, 1, 0)
    \/ KernelMapDirectMemory(t, FALSE, 1, 8, 0, 0)
    \/ KernelMapDirectMemory(t, TRUE, 1, 1, 0, 0)

MunmapCall(t) ==
    \E vaddr \in {0} \cup HostAddrs, len \in {0} \cup MapLens : KernelMunmap(t, vaddr, len)

AllocateDirectCall(t) ==
    \E w \in DirectWindows, len \in {0, 2, Modulus \div 2 - 1, Modulus - 1} :
        KernelAllocateDirectMemory(t, w[1], w[2], len, 0, FALSE)

ReleaseDirectCall(t) ==
    \E a \in DirectReleaseArgs(phys) : KernelReleaseDirectMemory(t, a[1], a[2])

QueryCall(t) == \E addr \in 0 .. 5 : KernelQueryMemoryProtection(t, addr)

\* One guest thread calling the whole Kernel Memory API, one call after the other.
NextKernel ==
    \/ MapNamedFlexibleCall("t1")
    \/ MapDirectCall("t1")
    \/ BadMapCall("t1")
    \/ MunmapCall("t1")
    \/ AllocateDirectCall("t1")
    \/ ReleaseDirectCall("t1")
    \/ QueryCall("t1")
    \/ KernelGetDirectMemorySize("t1")
    \/ Continue("t1")

SpecKernel == Init /\ [][NextKernel]_vars

\* The prot codes the guest passes: every code of the two switches, and codes next
\* to them.
Prots == ((0 - 1) .. 8) \cup (49 .. 52)

\* One guest thread allocating direct memory and mapping with every prot code.
NextProt ==
    \/ KernelAllocateDirectMemory("t1", 0, Modulus \div 2 - 1, 2, 0, FALSE)
    \/ \E prot \in Prots : KernelMapNamedFlexibleMemory("t1", FALSE, 1, prot, 0)
    \/ \E prot \in Prots : KernelMapDirectMemory("t1", FALSE, 1, prot, 0, 0)
    \/ ContinueMap("t1")

SpecProt == Init /\ [][NextProt]_vars

\* The calls of the guest thread that allocates and maps.
MapperCall(t) ==
    \/ KernelAllocateDirectMemory(t, 0, Modulus \div 2 - 1, 2, 0, FALSE)
    \/ KernelMapNamedFlexibleMemory(t, FALSE, 1, 1, 0)
    \/ \E prot \in {1, 51} : KernelMapDirectMemory(t, FALSE, 1, prot, 0, 0)
    \/ ContinueMap(t)

\* The calls of the guest thread that unmaps and releases.
UnmapperCall(t) ==
    \/ \E vaddr \in {0} \cup HostAddrs : KernelMunmap(t, vaddr, 1)
    \/ KernelReleaseDirectMemory(t, 0, 2)
    \/ ContinueUnmap(t)

\* Two guest threads running concurrently, one mapping while the other unmaps and
\* releases: either takes the next step of its call, or begins a call.
NextThreads == MapperCall("t1") \/ UnmapperCall("t2")

SpecThreads == Init /\ [][NextThreads]_vars

\* ------------------------------------------------ properties of Alloc/Release

Max(a, b) == IF a > b THEN a ELSE b

Min(a, b) == IF a < b THEN a ELSE b

\* Blocks a and b share an address: [start_addr, start_addr + size) of the one
\* meets that of the other (in the integers).
Overlap(a, b) ==
    Max(a.start_addr, b.start_addr) < Min(a.start_addr + a.size, b.start_addr + b.size)

\* The step is a successful Alloc.
AllocStep == ret'.op = "Alloc" /\ ret'.ok /\ Len(phys') = Len(phys) + 1

\* C1: no two blocks of the Physical Manager's list have overlapping physical
\* ranges [start_addr, start_addr + size), whatever Alloc and Release calls the
\* threads make.
C1_NoOverlap ==
    \A i, j \in 1 .. Len(phys) : i < j => ~Overlap(phys[i], phys[j])

\* C2: of two successful Allocs with no Release in between, the second returns an
\* address at or above the first's address plus the first's len.
C2_Monotonic ==
    \A i \in 2 .. Len(trail) :
        trail[i].op = "Alloc" /\ trail[i - 1].op = "Alloc"
            => trail[i].addr >= trail[i - 1].addr + trail[i - 1].len

\* C3 as stated: a successful Alloc with any alignment a >= 1 returns a multiple
\* of a.
C3_AlignedAny ==
    ret.op = "Alloc" /\ ret.ok /\ ret.alignment >= 1
        => ret.phys_addr_out % ret.alignment = 0

IsPow2(a) == \E k \in 0 .. (WordBits - 1) : a = Pow2(k)

\* C3, amended: a successful Alloc with an alignment a that is a power of two
\* returns a multiple of a, whatever the list holds.
C3_AlignedPow2 ==
    ret.op = "Alloc" /\ ret.ok /\ IsPow2(ret.alignment)
        => ret.phys_addr_out % ret.alignment = 0

\* C3's case: a successful Alloc put its block above the end of the block before
\* it, at an even address: the alignment moved it up.
C3_Witness ==
    /\ ret.op = "Alloc" /\ ret.ok /\ ret.alignment = 2 /\ Len(phys) = 2
    /\ phys[2].start_addr = ret.phys_addr_out
    /\ phys[2].start_addr > phys[1].start_addr + phys[1].size
    /\ phys[2].start_addr % 2 = 0

\* C4 as stated: after Alloc returned A for len1, Alloc returned B = A + len1
\* for len2 and Release(B, len2) succeeded, the next successful Alloc returns B.
C4_ReusedExactly ==
    [][Released(trail) \in {"top", "stacked"} /\ AllocStep
           => ret'.phys_addr_out = trail[2].addr]_vars

\* C4, amended: after Alloc returned A for len1 with no block ending above A,
\* Alloc returned B = A + len1 for len2 and Release(B, len2) succeeded, the next
\* successful Alloc returns B aligned by its alignment, get_aligned_pos(B, a).
C4_ReusedAligned ==
    [][Released(trail) = "top" /\ AllocStep
           => ret'.phys_addr_out = get_aligned_pos(trail[2].addr, ret'.alignment)]_vars

\* C4's case: with a block already in the list, Alloc returned A right at that
\* block's end, the next Alloc returned B = A + len1, B was released, and the
\* Alloc after the release has put its block where the released block was.
C4_Witness ==
    /\ ret.op = "Alloc" /\ ret.ok
    /\ Len(trail) = 1 /\ trail[1].after = "top"
    /\ Len(phys) = 3 /\ phys[1].size > 0 /\ phys[2].size > 0 /\ phys[3].size > 0
    /\ phys[2].start_addr = phys[1].start_addr + phys[1].size
    /\ phys[3].start_addr = phys[2].start_addr + phys[2].size

\* The amended statement of C4 for the histories its condition on A leaves out:
\* a block that ended above A as A was returned. Such a block is in the list
\* only through the wrapped sums of Alloc (Alloc(len Modulus - 1) -> 0, then
\* Alloc(len 1, alignment 2) -> A = 0 below the first block's end); after
\* Alloc(len 1, alignment 3) -> B = 1 and Release(1, 1) its end is still the
\* greatest one, and Alloc(len 0) returns Modulus - 1, not B. This formula is
\* violated, which is why the amended statement carries the condition.
C4_ReusedAlignedStacked ==
    [][Released(trail) = "stacked" /\ AllocStep
           => ret'.phys_addr_out = get_aligned_pos(trail[2].addr, ret'.alignment)]_vars

\* C5: after Alloc returned A for len1, Alloc returned B above A for len2 and
\* Release(A, len1) succeeded, the next successful Alloc returns B + len2
\* aligned up by its alignment; and no successful Alloc returns an address below
\* the greatest start_addr + size of the blocks in the list.
C5_HoleNotReused ==
    [][/\ Released(trail) = "hole" /\ AllocStep
            => /\ ret'.phys_addr_out = get_aligned_pos(Add(trail[2].addr, trail[2].len),
                                                       ret'.alignment)
               /\ ret'.phys_addr_out >= trail[2].addr + trail[2].len
       /\ AllocStep => \A i \in 1 .. Len(phys) :
                           ret'.phys_addr_out >= phys[i].start_addr + phys[i].size]_vars

\* ------------------------------------------- properties of Release and Unmap

\* Block b has no mapping: the test Map makes before it stores one.
NoMapping(b) == b.map_vaddr = 0 /\ b.map_size = 0

\* C6: Release(start, len) succeeds only when a block has start_addr = start and
\* size = len; it then removes that one block, leaves the others as they are and
\* returns the block's map_vaddr, map_size and gpu_mode, which are 0, 0 and
\* NoAccess for a block with no mapping; any other Release fails and leaves the
\* list unchanged.
C6_ReleaseExact ==
    [][ret'.op = "Release" =>
          \A a \in ReleaseArgs(phys) : Release(a[1], a[2]) =>
              LET exact == {i \in 1 .. Len(phys) :
                              phys[i].start_addr = a[1] /\ phys[i].size = a[2]}
              IN  /\ ret'.ok <=> exact # {}
                  /\ ~ret'.ok => phys' = phys
                  /\ ret'.ok => \E i \in exact :
                        /\ phys' = RemoveAt(phys, i)
                        /\ ret'.vaddr = phys[i].map_vaddr
                        /\ ret'.size = phys[i].map_size
                        /\ ret'.gpu_mode = phys[i].gpu_mode
                        /\ NoMapping(phys[i]) => ret'.gpu_mode = "NoAccess"]_vars

\* C7: Unmap(vaddr, size) of either manager fails and changes nothing
\* unless (vaddr, size) is the (map_vaddr, map_size) of an active mapping; no
\* Unmap call matches a Physical block that has no mapping.
C7_UnmapOnlyActive ==
    [][/\ ret'.op = "Unmap" =>
            \A v \in MapArgs : Unmap(v[1], v[2]) =>
                ((\A i \in 1 .. Len(phys) :
                     NoMapping(phys[i])
                     \/ ~(phys[i].map_vaddr = v[1] /\ phys[i].map_size = v[2]))
                 => ~ret'.ok /\ phys' = phys)
       /\ ret'.op = "FlexUnmap" =>
            \A v \in MapArgs : FlexUnmap(v[1], v[2]) =>
                ((\A i \in 1 .. Len(flex) :
                     ~(flex[i].map_vaddr = v[1] /\ flex[i].map_size = v[2]))
                 => ~ret'.ok /\ flex' = flex)]_vars

\* C8: Map with phys_addr inside a block that has a mapping returns false and
\* changes no block, so that a block is mapped again only after an Unmap; Map
\* with phys_addr inside no block returns false and changes no block.
C8_SingleMapping ==
    [][ret'.op = "Map" =>
          \A v \in MapArgs, phys_addr \in PhysAddrs, a \in Attrs :
              Map(v[1], phys_addr, v[2], a[1], a[2], a[3]) =>
                  LET Inside(b) == /\ phys_addr >= b.start_addr
                                   /\ phys_addr < b.start_addr + b.size
                  IN  /\ (\E i \in 1 .. Len(phys) : Inside(phys[i]) /\ ~NoMapping(phys[i]))
                         => ~ret'.ok /\ phys' = phys
                      /\ (\A i \in 1 .. Len(phys) : ~Inside(phys[i]))
                         => ~ret'.ok /\ phys' = phys]_vars

\* ---------------------------------------------- properties of Map and Find

\* What Find returns for entry b.
Found(b) ==
    [ok |-> TRUE, base_addr |-> b.map_vaddr, len |-> b.map_size, prot |-> b.prot,
     mode |-> b.mode, gpu_mode |-> b.gpu_mode]

\* Address x lies in the range [map_vaddr, map_vaddr + map_size) of entry b.
InRange(b, x) == x >= b.map_vaddr /\ x < b.map_vaddr + b.map_size

\* The mappings a list records: every entry of the Flexible Manager, the blocks
\* that have a mapping of the Physical Manager.
Recorded(m) == {i \in 1 .. Len(m) : ~NoMapping(m[i])}

\* Find on list m returns no block that has no mapping.
NeverUnmapped(m) == \A x \in Word : FindIn(m, x).ok => ~(FindIn(m, x).len = 0)

\* C9 as stated, for the mappings of list m.
FindsAll(m, recorded) ==
    \A i \in recorded :
        /\ FindIn(m, m[i].map_vaddr) = Found(m[i])
        /\ FindIn(m, Sub(Add(m[i].map_vaddr, m[i].map_size), 1)) = Found(m[i])
        /\ ~FindIn(m, Add(m[i].map_vaddr, m[i].map_size)).ok

\* C9 as stated: for every mapping [v, v + len) a successful Map recorded in
\* either manager, Find(v) and Find(v + len - 1) succeed with the mapping's
\* base, len, prot, mode and gpu_mode, and Find(v + len) fails; Find returns no
\* Physical block that has no mapping.
C9_FindAll ==
    /\ FindsAll(phys, Recorded(phys))
    /\ FindsAll(flex, 1 .. Len(flex))
    /\ NeverUnmapped(phys)

\* C9, amended, for the mappings of list m: entry i has len >= 1 and ends below
\* the top of the address space; Find of an address of its range returns it when
\* no entry before it in the list contains the address, and Find(v + len) fails
\* when no entry contains v + len.
FindsFirst(m, recorded) ==
    \A i \in recorded :
        LET v == m[i].map_vaddr
            len == m[i].map_size
            First(x) == \A j \in 1 .. (i - 1) : ~InRange(m[j], x)
        IN  len >= 1 /\ v + len < Modulus =>
                /\ First(v) => FindIn(m, v) = Found(m[i])
                /\ First(v + len - 1) => FindIn(m, v + len - 1) = Found(m[i])
                /\ (\A j \in 1 .. Len(m) : ~InRange(m[j], v + len))
                   => ~FindIn(m, v + len).ok

\* The latest successful call that changed a list is a Map of manager op, with
\* len >= 1 and a range that ends below the top of the address space and that
\* no mapping in the list at that time met: Find on m returns what Map was given.
FindsLatest(m, op) ==
    trail # <<>> /\ trail[1].op = op =>
        LET t == trail[1]
            Free(x) == \A j \in 1 .. Len(t.before) : ~InRange(t.before[j], x)
            given == [ok |-> TRUE, base_addr |-> t.vaddr, len |-> t.size, prot |-> t.prot,
                      mode |-> t.mode, gpu_mode |-> t.gpu_mode]
        IN  t.size >= 1 /\ t.vaddr + t.size < Modulus =>
                /\ Free(t.vaddr) => FindIn(m, t.vaddr) = given
                /\ Free(t.vaddr + t.size - 1) => FindIn(m, t.vaddr + t.size - 1) = given

\* C9, amended: for every mapping [v, v + len) with len >= 1 and v + len below
\* 2^64 that a successful Map recorded in either manager, Find(v) and
\* Find(v + len - 1) succeed with the base, len, prot, mode and gpu_mode given
\* to Map unless a mapping earlier in the list contains the address, and
\* Find(v + len) fails unless a mapping contains v + len; Find returns no
\* Physical block that has no mapping.
C9_FindContainment ==
    /\ FindsFirst(phys, Recorded(phys))
    /\ FindsFirst(flex, 1 .. Len(flex))
    /\ FindsLatest(phys, "Map")
    /\ FindsLatest(flex, "FlexMap")
    /\ NeverUnmapped(phys)
    /\ ret.op \in {"Find", "FlexFind"} /\ ret.ok => ret.len # 0

\* C9's case: with two mappings in the Flexible Manager, the later one the
\* latest Map, a Find has returned the later one.
C9_Witness ==
    /\ Len(flex) = 2 /\ flex[1].map_size >= 1
    /\ trail # <<>> /\ trail[1].op = "FlexMap" /\ trail[1].size >= 1
    /\ ret.op = "FlexFind" /\ ret.ok
    /\ ret.base_addr = trail[1].vaddr /\ ret.base_addr # flex[1].map_vaddr

\* The step is the Unmap, by the manager whose Map is op, of the (vaddr, size)
\* that manager's Map has just mapped.
RoundTrip(op) ==
    /\ Len(trail) = 1 /\ trail[1].op = op
    /\ Len(trail') = 1 /\ trail'[1].op = "Unmap" /\ trail'[1].after = op

\* For every address Find on list m gives what it gave on list before.
SameFinds(m, before) == \A x \in Word : FindIn(m, x) = FindIn(before, x)

\* C10 as stated: a successful Map followed by the Unmap of the same
\* (vaddr, size) leaves Find, for every address, with the result and the
\* attributes it had before the Map, whatever the list held.
C10_RoundTripAlways ==
    [][/\ RoundTrip("Map") => SameFinds(phys', trail[1].before)
       /\ RoundTrip("FlexMap") => SameFinds(flex', trail[1].before)]_vars

\* C10, amended: a successful Map followed by the Unmap of the same
\* (vaddr, size) leaves Find, for every address, with the result and the
\* attributes it had before the Map, when no entry of the list stored that
\* (vaddr, size) before the Map.
C10_RoundTripFresh ==
    [][/\ RoundTrip("Map") /\ trail'[1].fresh => SameFinds(phys', trail[1].before)
       /\ RoundTrip("FlexMap") /\ trail'[1].fresh
          => SameFinds(flex', trail[1].before)]_vars

\* C10's case: the Flexible Manager has just unmapped what it had just mapped,
\* a range no entry stored before, next to a mapping that is still there.
C10_Witness ==
    /\ ret.op = "FlexUnmap" /\ ret.ok
    /\ Len(trail) = 1 /\ trail[1].op = "Unmap" /\ trail[1].after = "FlexMap"
    /\ trail[1].fresh
    /\ Len(flex) = 1 /\ flex[1].map_size >= 1

\* ---------------------------------------- properties of the Kernel Memory API

\* The mapping calls of the API.
MapOps == {"KernelMapNamedFlexibleMemory", "KernelMapDirectMemory"}

\* C11: a mapping call with a non-null addr and flags 0 decodes prot 0 to NoAccess,
\* 1 to Read, 2 and 3 to ReadWrite, 4 to Execute, 5 to ExecuteRead, 6 and 7 to
\* ExecuteReadWrite, with gpu_mode NoAccess; KernelMapDirectMemory decodes 0x32 and
\* 0x33 to ReadWrite with gpu_mode ReadWrite; with any other prot the call is in
\* the fatal state, having made no call to the host or a manager, the lists and
\* the reservations being what they were.
C11_ProtDecode ==
    \A t \in Threads :
        (/\ th[t].pc # "idle"
         /\ th[t].op \in MapOps
         /\ ~th[t].arg.addr_null
         /\ th[t].arg.flags = 0)
        => LET p == th[t].arg.prot
               gpu == th[t].op = "KernelMapDirectMemory" /\ p \in {50, 51}
           IN  IF p \in 0 .. 7 \/ gpu
               THEN /\ th[t].pc # "fatal"
                    /\ th[t].loc.mode =
                          (CASE p = 0 -> "NoAccess"
                             [] p = 1 -> "Read"
                             [] p \in {2, 3, 50, 51} -> "ReadWrite"
                             [] p = 4 -> "Execute"
                             [] p = 5 -> "ExecuteRead"
                             [] p \in {6, 7} -> "ExecuteReadWrite")
                    /\ th[t].loc.gpu_mode = (IF gpu THEN "ReadWrite" ELSE "NoAccess")
               ELSE /\ th[t].pc = "fatal"
                    /\ th[t].log = <<>>
                    /\ th[t].before = <<phys, flex, host>>

\* KernelMapNamedFlexibleMemory was given prot 0x33 and is in the fatal state, a
\* block being mapped for the GPU by a KernelMapDirectMemory with prot 0x32 or 0x33.
C11_Witness ==
    /\ th["t1"].pc = "fatal"
    /\ th["t1"].op = "KernelMapNamedFlexibleMemory"
    /\ th["t1"].arg.prot = 51
    /\ \E i \in 1 .. Len(phys) : phys[i].gpu_mode = "ReadWrite" /\ phys[i].prot \in {50, 51}

\* The entries of list m that store the mapping (vaddr, size).
MappedAt(m, vaddr, size) ==
    {i \in 1 .. Len(m) : m[i].map_vaddr = vaddr /\ m[i].map_size = size}

\* The calls of a log, without their results.
Calls(log) == [i \in 1 .. Len(log) |-> <<log[i].call, log[i].addr, log[i].len>>]

\* The collaborator calls that tear down the mapping (vaddr, size, gpu_mode):
\* host Release, then for a GPU mapping WaitIdle and FreeRange.
TeardownCalls(vaddr, size, gpu_mode) ==
    <<<<"VirtualMemory::Free", vaddr, 0>>>> \o
    (IF gpu_mode # "NoAccess"
     THEN <<<<"GraphicsRunWait", 0, 0>>, <<"GpuMemoryFree", vaddr, size>>>>
     ELSE <<>>)

\* List m is list old with the mapping of block i cleared and nothing else changed.
ClearedAt(m, old, i) ==
    /\ Len(m) = Len(old)
    /\ NoMapping(m[i]) /\ m[i].prot = 0 /\ m[i].mode = "NoAccess" /\ m[i].gpu_mode = "NoAccess"
    /\ m[i].start_addr = old[i].start_addr /\ m[i].size = old[i].size
    /\ \A j \in 1 .. Len(old) : j # i => m[j] = old[j]

\* C12: a KernelMunmap(vaddr, len) with len # 0 calls the Physical Manager's Unmap
\* first and the Flexible Manager's Unmap only after that failed; when neither
\* matches it is in the fatal state having called no collaborator; on a match it
\* returns after, in this order, the manager's entry was cleared, host Release(vaddr)
\* was called once and, exactly for a mapping whose gpu_mode was not NoAccess, GPU
\* WaitIdle and then GPU FreeRange(vaddr, len) were called.
C12_MunmapOrder ==
    \A t \in Threads :
        (th[t].pc # "idle" /\ th[t].op = "KernelMunmap" /\ th[t].arg.len # 0)
        => LET c == th[t]
               v == c.arg.vaddr
               n == c.arg.len
               inPhys == MappedAt(c.before[1], v, n)
               inFlex == MappedAt(c.before[2], v, n)
               gpu == IF inPhys # {} THEN c.before[1][FirstIndex(inPhys)].gpu_mode
                      ELSE c.before[2][FirstIndex(inFlex)].gpu_mode
               managers ==
                   IF inPhys # {}
                   THEN <<Ev("PhysicalMemory::Unmap", v, n, TRUE)>>
                   ELSE <<Ev("PhysicalMemory::Unmap", v, n, FALSE),
                          Ev("FlexibleMemory::Unmap", v, n, inFlex # {})>>
               cleared ==
                   IF inPhys # {}
                   THEN ClearedAt(phys, c.before[1], FirstIndex(inPhys)) /\ flex = c.before[2]
                   ELSE phys = c.before[1] /\ flex = RemoveAt(c.before[2], FirstIndex(inFlex))
           IN  CASE c.pc = "munmap_flexible" ->
                        inPhys = {} /\ c.log = <<Ev("PhysicalMemory::Unmap", v, n, FALSE)>>
                 [] c.pc = "munmap_free" ->
                        inPhys \cup inFlex # {} /\ c.log = managers /\ cleared
                 [] c.pc = "fatal" ->
                        inPhys \cup inFlex = {} /\ c.log = managers
                 [] c.pc = "munmap_wait" ->
                        /\ inPhys \cup inFlex # {} /\ gpu # "NoAccess" /\ cleared
                        /\ Calls(c.log) = Calls(managers) \o SubSeq(TeardownCalls(v, n, gpu), 1, 1)
                 [] c.pc = "munmap_gpu" ->
                        /\ inPhys \cup inFlex # {} /\ gpu # "NoAccess" /\ cleared
                        /\ Calls(c.log) = Calls(managers) \o SubSeq(TeardownCalls(v, n, gpu), 1, 2)
                 [] c.pc = "done" ->
                        /\ inPhys \cup inFlex # {}
                        /\ c.status = "OK"
                        /\ Calls(c.log) = Calls(managers) \o TeardownCalls(v, n, gpu)
                        /\ cleared

\* A KernelMunmap has returned after it tore down a GPU mapping of the Physical
\* Manager.
C12_Witness ==
    /\ th["t1"].pc = "done"
    /\ th["t1"].op = "KernelMunmap"
    /\ Len(th["t1"].log) = 4
    /\ th["t1"].log[1].ok

\* C13: a call of the Kernel Memory API that has returned a status other than OK
\* has left the Physical Manager's block list and the Flexible Manager's mapping
\* list as they were when it was called; a KernelMapNamedFlexibleMemory whose host
\* reservation was null has recorded no mapping.
C13_ErrorKeepsLists ==
    \A t \in Threads :
        (th[t].pc = "done" /\ th[t].status # "OK")
        => phys = th[t].before[1] /\ flex = th[t].before[2]

\* The first block of list m whose range [start_addr, start_addr + size) holds
\* phys_addr, 0 if there is none.
Containing(m, phys_addr) ==
    FirstIndex({i \in 1 .. Len(m) :
                   phys_addr >= m[i].start_addr /\ phys_addr < m[i].start_addr + m[i].size})

\* C14: a KernelMapDirectMemory whose host reservation out_addr was not null has,
\* when the Physical Manager's Map failed, released that reservation (and no other),
\* returned KERNEL_ERROR_EBUSY, not called GPU MarkAllocated and left every block as
\* it was; it has called GPU MarkAllocated(out_addr, len), once, exactly when Map
\* succeeded and prot decodes to a gpu_mode other than NoAccess.
C14_MapDirectFailure ==
    \A t \in Threads :
        (/\ th[t].pc = "done"
         /\ th[t].op = "KernelMapDirectMemory"
         /\ th[t].loc.vaddr # 0)
        => LET c == th[t]
               out_addr == c.loc.vaddr
               len == c.arg.len
               reserve == <<"VirtualMemory::AllocAligned", out_addr, len>>
               map == <<"PhysicalMemory::Map", out_addr, len>>
           IN  /\ Len(c.log) >= 2
               /\ IF ~c.log[2].ok
                  THEN /\ Calls(c.log) = <<reserve, map, <<"VirtualMemory::Free", out_addr, 0>>>>
                       /\ c.log[3].ok
                       /\ c.status = "KERNEL_ERROR_EBUSY"
                       /\ <<phys, flex, host>> = c.before
                  ELSE /\ Calls(c.log) =
                            <<reserve, map>> \o
                            (IF c.arg.prot \in {50, 51}
                             THEN <<<<"GpuMemorySetAllocatedRange", out_addr, len>>>>
                             ELSE <<>>)
                       /\ c.status = "OK"
                       /\ host = c.before[3] \cup {[addr |-> out_addr, len |-> len]}

\* A KernelMapDirectMemory with prot 0x33 has returned KERNEL_ERROR_EBUSY because the
\* block that holds direct_memory_start is mapped already.
C14_Witness ==
    /\ th["t1"].pc = "done"
    /\ th["t1"].op = "KernelMapDirectMemory"
    /\ th["t1"].status = "KERNEL_ERROR_EBUSY"
    /\ th["t1"].arg.prot = 51
    /\ \E i \in 1 .. Len(phys) :
          /\ i = Containing(phys, ToWord(th["t1"].arg.direct_memory_start))
          /\ ~NoMapping(phys[i])

\* The entries of list m that are an active mapping whose range
\* [map_vaddr, map_vaddr + map_size) holds addr.
Holding(m, addr) == {i \in 1 .. Len(m) : ~NoMapping(m[i]) /\ InRange(m[i], addr)}

\* What a query reports of mapping b: its first byte, its last byte and its prot.
Reported(b) == [start |-> b.map_vaddr, end |-> b.map_vaddr + b.map_size - 1, prot |-> b.prot]

\* KernelQueryMemoryProtection(addr) of thread t has ended as the claim says: with
\* OK exactly when an active mapping holds addr, and KERNEL_ERROR_EACCES otherwise;
\* with OK the outputs are those of a mapping that holds addr, one of the Physical
\* Manager if there is one; and neither list has changed.
Queried(t) ==
    LET c == th[t]
        inPhys == Holding(phys, c.arg.addr)
        inFlex == Holding(flex, c.arg.addr)
    IN  /\ c.pc = "done"
        /\ c.status = (IF inPhys \cup inFlex # {} THEN "OK" ELSE "KERNEL_ERROR_EACCES")
        /\ c.status = "OK" =>
              IF inPhys # {}
              THEN \E i \in inPhys : c.out = Reported(phys[i])
              ELSE \E i \in inFlex : c.out = Reported(flex[i])
        /\ <<phys, flex, host>> = c.before

\* The call of thread t is a KernelQueryMemoryProtection that has ended.
QueryEnded(t) ==
    /\ th[t].pc \in {"done", "fatal"}
    /\ th[t].op = "KernelQueryMemoryProtection"

\* C15 as stated: KernelQueryMemoryProtection(addr) returns OK if and only if addr
\* lies in [map_vaddr, map_vaddr + map_size) of an active mapping of either manager,
\* and KERNEL_ERROR_EACCES otherwise, for every addr; with OK it reports map_vaddr,
\* map_vaddr + map_size - 1 and the mapping's prot, a Physical Manager's mapping
\* first; it changes no list.
C15_QueryAll == \A t \in Threads : QueryEnded(t) => Queried(t)

\* C15, amended: the same for every non-null addr; with a null addr the call ends
\* in the fatal state, and changes no list either.
C15_QueryNonNull ==
    \A t \in Threads :
        QueryEnded(t) =>
            IF th[t].arg.addr # 0
            THEN Queried(t)
            ELSE th[t].pc = "fatal" /\ <<phys, flex, host>> = th[t].before

\* A query has returned OK for an address that a mapping of the Physical Manager
\* and a mapping of the Flexible Manager both hold.
C15_Witness ==
    /\ QueryEnded("t1")
    /\ th["t1"].status = "OK"
    /\ Holding(phys, th["t1"].arg.addr) # {}
    /\ Holding(flex, th["t1"].arg.addr) # {}

\* The entries of list m that are the block (start, len).
BlocksAt(m, start, len) == {i \in 1 .. Len(m) : m[i].start_addr = start /\ m[i].size = len}

\* C16: a KernelReleaseDirectMemory(start, len) with start >= 0 and len > 0 is in
\* the fatal state when no block was exactly (start, len); otherwise it has removed
\* that block and returns after, for a block that was mapped at (v, s), one host
\* Release(v) and, exactly for a GPU mapping, GPU WaitIdle and then GPU
\* FreeRange(v, s), and after no collaborator call for a block with no mapping;
\* when it has returned, the Physical Manager's Find fails for every address of
\* [v, v + s) and no block stores the mapping (v, s).
C16_ReleaseTeardown ==
    \A t \in Threads :
        (/\ th[t].pc # "idle"
         /\ th[t].op = "KernelReleaseDirectMemory"
         /\ th[t].arg.start >= 0
         /\ th[t].arg.len > 0)
        => LET c == th[t]
               hits == BlocksAt(c.before[1], c.arg.start, c.arg.len)
               b == c.before[1][FirstIndex(hits)]
               release == <<"PhysicalMemory::Release", c.arg.start, c.arg.len>>
           IN  IF hits = {}
               THEN c.pc = "fatal" /\ Calls(c.log) = <<release>> /\ phys = c.before[1]
               ELSE /\ c.pc \in {"release_free", "release_wait", "release_gpu", "done"}
                    /\ phys = RemoveAt(c.before[1], FirstIndex(hits))
                    /\ flex = c.before[2]
                    /\ c.pc = "release_free" => Calls(c.log) = <<release>>
                    /\ c.pc \in {"release_wait", "release_gpu"} =>
                          /\ ~NoMapping(b) /\ b.gpu_mode # "NoAccess"
                          /\ Calls(c.log) =
                                <<release>> \o
                                SubSeq(TeardownCalls(b.map_vaddr, b.map_size, b.gpu_mode), 1,
                                       IF c.pc = "release_wait" THEN 1 ELSE 2)
                    /\ c.pc = "done" =>
                          /\ c.status = "OK"
                          /\ Calls(c.log) =
                                <<release>> \o
                                (IF NoMapping(b) THEN <<>>
                                 ELSE TeardownCalls(b.map_vaddr, b.map_size, b.gpu_mode))
                          /\ ~NoMapping(b) =>
                                /\ \A x \in Word :
                                      InRange(b, x) => ~PhysicalMemory_Find(phys, x).ok
                                /\ MappedAt(phys, b.map_vaddr, b.map_size) = {}
                                /\ ~PhysicalMemory_Unmap(phys, b.map_vaddr, b.map_size).ok

\* A KernelReleaseDirectMemory has returned after it released a block that was
\* mapped for the GPU, another block being left in the list.
C16_Witness ==
    /\ th["t1"].pc = "done"
    /\ th["t1"].op = "KernelReleaseDirectMemory"
    /\ Len(th["t1"].log) = 4
    /\ Len(phys) = 1

\* The addresses of the live host reservations.
ReservedAddrs == {r.addr : r \in host}

\* The map_vaddr of the active mappings of both managers.
MappedAddrs ==
    {phys[i].map_vaddr : i \in Recorded(phys)} \cup {flex[i].map_vaddr : i \in 1 .. Len(flex)}

\* C17: with threads calling KernelMapNamedFlexibleMemory, KernelMapDirectMemory,
\* KernelMunmap and KernelReleaseDirectMemory concurrently, every active mapping of
\* either manager has a live host reservation at its map_vaddr, no call has passed
\* host Release an address that was not reserved, and when no call is in progress
\* the live reservations are exactly the map_vaddr of the active mappings.
C17_Matched ==
    /\ MappedAddrs \subseteq ReservedAddrs
    /\ \A t \in Threads :
          th[t].pc # "idle" =>
              \A k \in 1 .. Len(th[t].log) :
                  th[t].log[k].call = "VirtualMemory::Free" => th[t].log[k].ok
    /\ (\A t \in Threads : th[t].pc \in {"idle", "done"}) => ReservedAddrs = MappedAddrs

\* C18: every block of the Physical Manager either has no mapping, and then stores
\* map_vaddr = 0, map_size = 0, prot = 0, mode = NoAccess and gpu_mode = NoAccess,
\* or has one active mapping; a block that stores map_vaddr = 0 and map_size = 0
\* never carries a prot, a mode or a gpu_mode of a mapping.
C18_BlockShapes ==
    \A i \in 1 .. Len(phys) :
        NoMapping(phys[i]) =>
            /\ phys[i].prot = 0
            /\ phys[i].mode = "NoAccess"
            /\ phys[i].gpu_mode = "NoAccess"

RECURSIVE Shr(_, _)
\* x / 2^n, rounded down.
Shr(x, n) == IF n <= 0 THEN x ELSE Shr(x \div 2, n - 1)

\* x words are at most Size(): x <= num / 2^shift.
WithinSize(x) == x <= Shr(Size.num, Size.shift)

\* C19: every block of the Physical Manager lies within the backing space:
\* start_addr + size <= Size(), whatever window and length
\* KernelAllocateDirectMemory was given.
C19_WithinSize == \A i \in 1 .. Len(phys) : WithinSize(phys[i].start_addr + phys[i].size)

\* The active mappings of both managers, each as <<manager, index, map_vaddr, map_size>>.
Mappings ==
    {<<"phys", i, phys[i].map_vaddr, phys[i].map_size>> : i \in Recorded(phys)} \cup
    {<<"flex", i, flex[i].map_vaddr, flex[i].map_size>> : i \in 1 .. Len(flex)}

\* C20: no two active mappings of the Physical and the Flexible Manager share a
\* virtual address, the host returning null or a range disjoint from every live
\* reservation.
C20_NoVirtualOverlap ==
    \A a \in Mappings, b \in Mappings :
        a # b => ~(Max(a[3], b[3]) < Min(a[3] + a[4], b[3] + b[4]))

=============================================================================
